---- MODULE Spec2Model ----
(***************************************************************************)
(* Model of agentshare's session store (context/store.py): the sessions   *)
(* table, the sessions_fts external-content FTS5 index with its triggers, *)
(* and the SessionStore operations, run by one store or by several stores *)
(* sharing one database file.                                             *)
(***************************************************************************)
EXTENDS Integers, Sequences, FiniteSets, TLC

VARIABLES
    file,   \* the committed database: [rows, fts]
    txn,    \* per store: is a sqlite3 transaction open on its connection
    lock,   \* per store: the file lock its connection holds
    work,   \* per store: the uncommitted contents of its open write transaction
    pc,     \* per store: "idle", or "commit" while a write/delete call is between execute and commit
    call,   \* per store: the write/delete call in flight (or last made)
    ret,    \* per store: the outcome of the last call that returned
    hist,   \* history, per id: last written session, tokens of replaced content, deleted flag
    pre,    \* per store: what its connection read when the call in flight started
    done,   \* history: the write/delete calls that succeeded, in commit order; how many failed; who returned last
    conn,   \* per store: does its _conn field hold a handle, and how many handles it has open
    disk,   \* the file system: does the data directory exist, does the database hold the schema
    fs,     \* the file system: the agent rules file, the TOML and JSON configs, the skills directory
    note    \* history: the installer files before the first call, the last call and its outcome

vars == <<file, txn, lock, work, pc, call, ret, hist, pre, done, conn, disk, fs, note>>

(***************************************************************************)
(* Bounds                                                                  *)
(***************************************************************************)
MaxRowid == 2      \* writes stop once the next rowid would exceed this
MaxCalls == 3      \* write/delete calls made in the several-store specification

RowIds == 1..(IF MaxRowid >= MaxCalls THEN MaxRowid ELSE MaxCalls)
Stores == {"s1", "s2"}
Ids    == {"a", "b"}
Words  == {"auth", "css", "jwt"}

(***************************************************************************)
(* Values                                                                  *)
(***************************************************************************)
Max(S) == CHOOSE x \in S : \A y \in S : y <= x
Min2(a, b) == IF a <= b THEN a ELSE b

\* An optional argument: <<>> is None, <<v>> is the value v.
None == <<>>
Some(v) == <<v>>
\* Python truthiness of an optional string (`if project_path:`).
Truthy(opt) == opt # None /\ opt[1] # ""

\* datetime: seconds, microseconds, tz (<<>> naive, <<h>> an offset of +h hours)
DateTime(sec, usec, tz) == [sec |-> sec, usec |-> usec, tz |-> tz]

\* datetime.isoformat(): the fraction is printed only when microsecond # 0,
\* the offset only for an aware datetime.
isoformat(dt) ==
    [sec  |-> dt.sec,
     frac |-> IF dt.usec = 0 THEN <<>> ELSE <<dt.usec>>,
     tz   |-> dt.tz]

\* A variant that reads whole seconds only.
fromisoformat_seconds(t) == [sec |-> t.sec, usec |-> 0, tz |-> t.tz]

\* datetime.fromisoformat(): an absent fraction reads as microsecond 0.
fromisoformat(t) ==
    [sec  |-> t.sec,
     usec |-> IF t.frac = <<>> THEN 0 ELSE t.frac[1],
     tz   |-> t.tz]

\* json.dumps of a list of strings: "[" e1 "," e2 ... "]".
json_dumps_list(xs) ==
    <<"[">> \o [i \in 1..(IF xs = <<>> THEN 0 ELSE 2 * Len(xs) - 1) |->
                  IF i % 2 = 1 THEN xs[(i + 1) \div 2] ELSE ","] \o <<"]">>

\* json.loads of such a text.
json_loads_list(t) ==
    LET inner == SubSeq(t, 2, Len(t) - 1)
    IN  [i \in 1..((Len(inner) + 1) \div 2) |-> inner[2 * i - 1]]

\* json.dumps of a dict (a sequence of <<key, value>> pairs in insertion
\* order): "{" k1 ":" v1 "," k2 ":" v2 ... "}".
json_dumps_dict(m) ==
    <<"{">> \o [i \in 1..(IF m = <<>> THEN 0 ELSE 4 * Len(m) - 1) |->
                  CASE i % 4 = 1 -> m[(i + 3) \div 4][1]
                    [] i % 4 = 2 -> ":"
                    [] i % 4 = 3 -> m[(i + 1) \div 4][2]
                    [] OTHER     -> ","] \o <<"}">>

json_loads_dict(t) ==
    LET inner == SubSeq(t, 2, Len(t) - 1)
    IN  [i \in 1..((Len(inner) + 1) \div 4) |-> <<inner[4 * i - 3], inner[4 * i - 1]>>]

\* The Session model (context/models.py).
Session(id, agent, project, title, summary, tags, decisions, files, created, meta) ==
    [id |-> id, agent_source |-> agent, project_path |-> project,
     title |-> title, summary |-> summary, tags |-> tags,
     key_decisions |-> decisions, files_modified |-> files,
     created_at |-> created, metadata |-> meta]

\* The column values write_session binds to the INSERT.
session_to_row(s) ==
    [id |-> s.id, agent_source |-> s.agent_source, project_path |-> s.project_path,
     title |-> s.title, summary |-> s.summary,
     tags |-> json_dumps_list(s.tags),
     key_decisions |-> json_dumps_list(s.key_decisions),
     files_modified |-> json_dumps_list(s.files_modified),
     created_at |-> isoformat(s.created_at),
     metadata |-> json_dumps_dict(s.metadata)]

row_to_session(row) ==
    [id |-> row.id, agent_source |-> row.agent_source, project_path |-> row.project_path,
     title |-> row.title, summary |-> row.summary,
     tags |-> json_loads_list(row.tags),
     key_decisions |-> json_loads_list(row.key_decisions),
     files_modified |-> json_loads_list(row.files_modified),
     created_at |-> fromisoformat(row.created_at),
     metadata |-> json_loads_dict(row.metadata)]

(***************************************************************************)
(* The schema: table sessions, index sessions_fts, triggers                *)
(***************************************************************************)
\* A text is a sequence of words; the FTS5 tokenizer yields its set of terms.
Tokenize(text) == {text[i] : i \in DOMAIN text}

\* The columns of sessions_fts that are indexed: title and summary
\* (id is UNINDEXED).
sessions_fts_terms(row) == Tokenize(row.title) \cup Tokenize(row.summary)

EmptyDb == [rows |-> <<>>, fts |-> [r \in RowIds |-> {}]]

\* A variant that gives the largest rowid in use again.
NewRowidInUse(rows) == IF DOMAIN rows = {} THEN 1 ELSE Max(DOMAIN rows)

\* The rowid SQLite gives a new row of a table without INTEGER PRIMARY KEY:
\* one more than the largest rowid in the table, chosen before a conflicting
\* row is removed.
NewRowid(rows) == IF DOMAIN rows = {} THEN 1 ELSE Max(DOMAIN rows) + 1

\* Trigger sessions_ai: AFTER INSERT, add the new row's terms under its rowid.
sessions_ai(fts, rowid, row) ==
    [fts EXCEPT ![rowid] = @ \cup sessions_fts_terms(row)]

\* Trigger sessions_ad: AFTER DELETE, the FTS5 'delete' command removes the
\* old row's terms from the entry of its rowid.
sessions_ad(fts, rowid, row) ==
    [fts EXCEPT ![rowid] = @ \ sessions_fts_terms(row)]

\* Trigger sessions_au: AFTER UPDATE, delete the old terms, add the new.
sessions_au(fts, rowid, old, new) ==
    sessions_ai(sessions_ad(fts, rowid, old), rowid, new)

RECURSIVE DeleteTriggers(_, _, _)
DeleteTriggers(fts, rows, rs) ==
    IF rs = {} THEN fts
    ELSE LET r == CHOOSE x \in rs : TRUE
         IN  DeleteTriggers(sessions_ad(fts, r, rows[r]), rows, rs \ {r})

\* A variant that inserts without removing the row of the same primary key.
InsertKeepingOld(db, row) ==
    LET new == NewRowid(db.rows)
    IN  [rows |-> [r \in DOMAIN db.rows \cup {new} |-> IF r = new THEN row ELSE db.rows[r]],
         fts  |-> sessions_ai(db.fts, new, row)]

\* INSERT OR REPLACE INTO sessions: the row holding the same primary key is
\* removed by conflict resolution, which fires no delete trigger
\* (recursive_triggers is off on the connection, store.py never sets it);
\* the new row is inserted under a new rowid and sessions_ai fires.
InsertOrReplace(db, row) ==
    LET new == NewRowid(db.rows)
        old == {r \in DOMAIN db.rows : db.rows[r].id = row.id}
        live == (DOMAIN db.rows \ old) \cup {new}
    IN  [rows |-> [r \in live |-> IF r = new THEN row ELSE db.rows[r]],
         fts  |-> sessions_ai(db.fts, new, row)]

\* A variant that clears the index entry but leaves the row in the table.
DeleteIndexOnly(db, id) ==
    LET old == {r \in DOMAIN db.rows : db.rows[r].id = id}
    IN  [rows |-> db.rows, fts |-> DeleteTriggers(db.fts, db.rows, old)]

\* DELETE FROM sessions WHERE id = ?: sessions_ad fires for each deleted row.
DeleteWhereId(db, id) ==
    LET old == {r \in DOMAIN db.rows : db.rows[r].id = id}
    IN  [rows |-> [r \in DOMAIN db.rows \ old |-> db.rows[r]],
         fts  |-> DeleteTriggers(db.fts, db.rows, old)]

\* A variant that counts the rows the table held.
DeleteRowcountOfTable(db, id) == Cardinality(DOMAIN db.rows)

\* cursor.rowcount of that DELETE.
DeleteRowcount(db, id) == Cardinality({r \in DOMAIN db.rows : db.rows[r].id = id})

(***************************************************************************)
(* SELECT                                                                  *)
(***************************************************************************)
\* ORDER BY created_at compares the stored ISO texts as strings.
IsoKey(t) ==
    <<t.sec,
      IF t.frac = <<>> THEN 0 ELSE 1 + t.frac[1],
      IF t.tz = <<>> THEN 0 ELSE 1 + t.tz[1]>>

\* A variant that compares the other way round.
TextLessReversed(t1, t2) ==
    LET a == IsoKey(t1)
        b == IsoKey(t2)
    IN  \/ b[1] < a[1]
        \/ a[1] = b[1] /\ b[2] < a[2]
        \/ a[1] = b[1] /\ a[2] = b[2] /\ b[3] < a[3]

TextLess(t1, t2) ==
    LET a == IsoKey(t1)
        b == IsoKey(t2)
    IN  \/ a[1] < b[1]
        \/ a[1] = b[1] /\ a[2] < b[2]
        \/ a[1] = b[1] /\ a[2] = b[2] /\ a[3] < b[3]

\* r comes before o in ORDER BY created_at DESC; rows of equal created_at
\* come out in the order the query plan visits them (tieAsc: by rowid upward).
Before(rows, r, o, tieAsc) ==
    \/ TextLess(rows[o].created_at, rows[r].created_at)
    \/ /\ rows[o].created_at = rows[r].created_at
       /\ IF tieAsc THEN r < o ELSE r > o

RECURSIVE OrderByCreatedDesc(_, _, _)
OrderByCreatedDesc(rows, S, tieAsc) ==
    IF S = {} THEN <<>>
    ELSE LET first == CHOOSE r \in S : \A o \in S \ {r} : Before(rows, r, o, tieAsc)
         IN  <<first>> \o OrderByCreatedDesc(rows, S \ {first}, tieAsc)

\* LIMIT n: a negative n is no limit.
Limit(seq, n) == IF n < 0 THEN seq ELSE SubSeq(seq, 1, Min2(n, Len(seq)))

Fetched(rows, rowids) == [i \in DOMAIN rowids |-> row_to_session(rows[rowids[i]])]

Result(sessions) == [ok |-> TRUE, err |-> "", sessions |-> sessions]
Raised(err) == [ok |-> FALSE, err |-> err, sessions |-> <<>>]

\* Does json.loads accept the text as a list: "[" ... "]" with elements
\* separated by commas.
JsonListValid(t) ==
    /\ Len(t) >= 2
    /\ t[1] = "[" /\ t[Len(t)] = "]"
    /\ Len(t) = 2 \/ Len(t) % 2 = 1
    /\ \A i \in 2..(Len(t) - 1) :
          IF i % 2 = 1 THEN t[i] = "," ELSE t[i] \notin {",", "[", "]"}

\* Can _row_to_session build a Session from the row.
RowValid(row) ==
    /\ JsonListValid(row.tags)
    /\ JsonListValid(row.key_decisions)
    /\ JsonListValid(row.files_modified)

\* A variant that leaves out the rows it cannot decode.
DecodeSkipping(rows, rowids) ==
    LET RECURSIVE Keep(_)
        Keep(seq) == IF seq = <<>> THEN <<>>
                     ELSE (IF RowValid(rows[Head(seq)]) THEN <<Head(seq)>> ELSE <<>>)
                            \o Keep(Tail(seq))
    IN  Result(Fetched(rows, Keep(rowids)))

\* [self._row_to_session(r) for r in rows]: json.loads raises on the first
\* row whose text is no JSON, and the call returns nothing.
Decode(rows, rowids) ==
    IF \E i \in DOMAIN rowids : ~RowValid(rows[rowids[i]])
    THEN Raised("JSONDecodeError")
    ELSE Result(Fetched(rows, rowids))

\* A variant that raises when no row has the id.
SelectByIdOrRaise(db, id) ==
    LET hit == {r \in DOMAIN db.rows : db.rows[r].id = id}
    IN  IF hit = {} THEN Raised("not found")
        ELSE Result(<<row_to_session(db.rows[CHOOSE r \in hit : TRUE])>>)

\* SessionStore.get_session: SELECT * FROM sessions WHERE id = ?
SelectById(db, id) ==
    LET hit == {r \in DOMAIN db.rows : db.rows[r].id = id}
    IN  IF hit = {} THEN Result(<<>>)
        ELSE Decode(db.rows, <<CHOOSE r \in hit : TRUE>>)

\* SessionStore.list_sessions: the filter applies only when project_path is
\* truthy; without it the plan walks idx_sessions_created backwards.
SelectList(db, project_path, limit) ==
    LET sel == IF Truthy(project_path)
               THEN {r \in DOMAIN db.rows : db.rows[r].project_path = project_path[1]}
               ELSE DOMAIN db.rows
    IN  Decode(db.rows, Limit(OrderByCreatedDesc(db.rows, sel, Truthy(project_path)), limit))

\* SessionStore.query_sessions: sessions_fts MATCH ? drives the join; for
\* every matching index entry FTS5 reads column id from the content table
\* sessions by rowid, and fails with "database disk image is malformed" when
\* no row has that rowid. LIMIT 0 reads nothing.
SelectMatch(db, query, project_path, agent_source, limit) ==
    LET matched == {r \in RowIds : query \in db.fts[r]}
        sel == {r \in matched \cap DOMAIN db.rows :
                  /\ Truthy(project_path) => db.rows[r].project_path = project_path[1]
                  /\ Truthy(agent_source) => db.rows[r].agent_source = agent_source[1]}
    IN  IF limit = 0 THEN Result(<<>>)
        ELSE IF matched \ DOMAIN db.rows # {} THEN Raised("malformed")
        ELSE Decode(db.rows, Limit(OrderByCreatedDesc(db.rows, sel, TRUE), limit))

(***************************************************************************)
(* The sqlite3 connection of a store                                       *)
(***************************************************************************)
\* What statements on store c's connection read: its own uncommitted
\* contents while it holds the write lock, else the committed file.
View(c) == IF lock[c] \in {"reserved", "pending"} THEN work[c] ELSE file

Others(c) == Stores \ {c}

\* A SHARED lock is granted unless another connection holds PENDING.
CanShare(c) == lock[c] # "none" \/ \A o \in Others(c) : lock[o] # "pending"
\* A RESERVED lock is granted unless another connection holds RESERVED or PENDING.
CanReserve(c) ==
    \/ lock[c] \in {"reserved", "pending"}
    \/ CanShare(c) /\ \A o \in Others(c) : lock[o] \notin {"reserved", "pending"}
\* COMMIT takes the EXCLUSIVE lock, granted when no other connection reads.
CanCommit(c) == \A o \in Others(c) : lock[o] = "none"

NoCall == [op |-> "none", session |-> None, id |-> ""]
WriteCall(s) == [op |-> "write_session", session |-> Some(s), id |-> s.id]
DeleteCall(id) == [op |-> "delete_session", session |-> None, id |-> id]

\* The outcome of a call: ok/err, the sessions returned, delete's boolean.
Ret(op, id, query, project_path, agent_source, limit, res, flag) ==
    [op |-> op, id |-> id, query |-> query, project_path |-> project_path,
     agent_source |-> agent_source, limit |-> limit,
     ok |-> res.ok, err |-> res.err, sessions |-> res.sessions, flag |-> flag]

NoRet == Ret("none", "", "", None, None, 0, Result(<<>>), FALSE)

\* The database a write/delete call makes of db.
Apply(cl, db) ==
    IF cl.op = "write_session" THEN InsertOrReplace(db, session_to_row(cl.session[1]))
    ELSE IF cl.op = "delete_session" THEN DeleteWhereId(db, cl.id)
    ELSE db

\* History of an id after a call on it returned successfully.
HistAfter(h, cl, existed) ==
    IF cl.op = "write_session"
    THEN [cur |-> cl.session,
          old |-> IF h.cur = None THEN {}
                  ELSE h.old \cup sessions_fts_terms(h.cur[1]),
          deleted |-> FALSE]
    ELSE [cur |-> None,
          old |-> IF h.cur = None THEN h.old
                  ELSE h.old \cup sessions_fts_terms(h.cur[1]),
          deleted |-> h.deleted \/ existed]

\* No installer file exists and no skill is registered.
NoFiles == [rules |-> None, toml |-> None, json |-> None, skills |-> {}]

\* rules, toml, json: the files before the first call;
\* op, ok, err: the last call, what it returned, what it raised; content, executable:
\* the argument of the last injection into the rules and the TOML file;
\* calls: injections so far, counted up to two.
NoNote ==
    [rules |-> None, toml |-> None, json |-> None, op |-> "none", ok |-> TRUE, err |-> "",
     content |-> None, executable |-> None, calls |-> [rules |-> 0, toml |-> 0]]

Init ==
    /\ file = EmptyDb
    /\ txn  = [c \in Stores |-> FALSE]
    /\ lock = [c \in Stores |-> "none"]
    /\ work = [c \in Stores |-> EmptyDb]
    /\ pc   = [c \in Stores |-> "idle"]
    /\ call = [c \in Stores |-> NoCall]
    /\ ret  = [c \in Stores |-> NoRet]
    /\ hist = [i \in Ids |-> [cur |-> None, old |-> {}, deleted |-> FALSE]]
    /\ pre  = [c \in Stores |-> EmptyDb]
    /\ done = [calls |-> <<>>, failed |-> 0, by |-> "s1"]
    /\ conn = [c \in Stores |-> [ref |-> FALSE, live |-> 0]]
    /\ disk = [dir |-> FALSE, schema |-> FALSE]
    /\ fs   = NoFiles
    /\ note = NoNote

\* A variant that connects on every call.
get_conn_always(c, granted) ==
    /\ conn' = [conn EXCEPT ![c] = [ref |-> TRUE, live |-> @.live + 1]]
    /\ disk' = [dir |-> TRUE, schema |-> disk.schema \/ granted]

\* SessionStore._get_conn: when _conn is None, ensure_dirs(), connect, and
\* run the schema script (CREATE ... IF NOT EXISTS), which needs a SHARED
\* lock; `granted` tells whether it got it. _conn is assigned before the
\* script runs, so it keeps the handle also when the script raises.
get_conn(c, granted) ==
    IF conn[c].ref
    THEN UNCHANGED <<conn, disk>>
    ELSE /\ conn' = [conn EXCEPT ![c] = [ref |-> TRUE, live |-> @.live + 1]]
         /\ disk' = [dir |-> TRUE, schema |-> disk.schema \/ granted]

\* No other connection holds a lock and c has no transaction open: every
\* lock c asks for is granted and its call runs to completion undisturbed.
Alone(c) == pc[c] = "idle" /\ ~txn[c] /\ \A o \in Stores : lock[o] = "none"

(***************************************************************************)
(* SessionStore operations of a store that has the file to itself          *)
(***************************************************************************)
\* write_session: INSERT OR REPLACE, commit, return the session.
write_session(c, s) ==
    /\ Alone(c)
    /\ NewRowid(file.rows) <= MaxRowid
    /\ file' = InsertOrReplace(file, session_to_row(s))
    /\ call' = [call EXCEPT ![c] = WriteCall(s)]
    /\ ret'  = [ret EXCEPT ![c] =
                  Ret("write_session", s.id, "", None, None, 0, Result(<<s>>), FALSE)]
    /\ hist' = [hist EXCEPT ![s.id] = HistAfter(@, WriteCall(s), FALSE)]
    /\ get_conn(c, TRUE)
    /\ UNCHANGED <<txn, lock, work, pc, pre, done, fs, note>>

\* delete_session: DELETE, commit, return rowcount > 0.
delete_session(c, id) ==
    /\ Alone(c)
    /\ file' = DeleteWhereId(file, id)
    /\ call' = [call EXCEPT ![c] = DeleteCall(id)]
    /\ ret'  = [ret EXCEPT ![c] =
                  Ret("delete_session", id, "", None, None, 0, Result(<<>>),
                      DeleteRowcount(file, id) > 0)]
    /\ hist' = [hist EXCEPT ![id] = HistAfter(@, DeleteCall(id), DeleteRowcount(file, id) > 0)]
    /\ get_conn(c, TRUE)
    /\ UNCHANGED <<txn, lock, work, pc, pre, done, fs, note>>

(***************************************************************************)
(* Reads, of any store                                                     *)
(***************************************************************************)
\* A SELECT on store c's connection: it needs a SHARED lock, which an open
\* transaction keeps afterwards; a refused lock raises "database is locked".
Read(c, op, id, query, project_path, agent_source, limit, res) ==
    /\ pc[c] = "idle"
    /\ IF CanShare(c)
       THEN /\ ret' = [ret EXCEPT ![c] =
                         Ret(op, id, query, project_path, agent_source, limit, res, FALSE)]
            /\ lock' = [lock EXCEPT ![c] = IF @ = "none" /\ txn[c] THEN "shared" ELSE @]
       ELSE /\ ret' = [ret EXCEPT ![c] =
                         Ret(op, id, query, project_path, agent_source, limit,
                             Raised("locked"), FALSE)]
            /\ lock' = lock
    /\ get_conn(c, CanShare(c))
    /\ UNCHANGED <<file, txn, work, pc, call, hist, pre, done, fs, note>>

get_session(c, id) ==
    Read(c, "get_session", id, "", None, None, 0, SelectById(View(c), id))

list_sessions(c, project_path, limit) ==
    Read(c, "list_sessions", "", "", project_path, None, limit,
         SelectList(View(c), project_path, limit))

query_sessions(c, query, project_path, agent_source, limit) ==
    Read(c, "query_sessions", "", query, project_path, agent_source, limit,
         SelectMatch(View(c), query, project_path, agent_source, limit))

(***************************************************************************)
(* One store, sessions that differ in their texts and tags                 *)
(***************************************************************************)
DefaultListLimit == 20
DefaultQueryLimit == 10

Utc(sec) == DateTime(sec, 0, <<0>>)

\* The word "jwt" stands either in the summary or, when the summary is
\* empty, in the tags only.
TextSessions ==
    {Session(id, "x", "/p", title, summary,
             IF summary = <<>> THEN <<"jwt">> ELSE <<>>, <<>>, <<>>, Utc(1), <<>>) :
        id \in Ids, title \in {<<"auth">>, <<"css">>}, summary \in {<<>>, <<"jwt">>}}

Next ==
    \/ \E s \in TextSessions : write_session("s1", s)
    \/ \E id \in Ids : delete_session("s1", id)
    \/ \E id \in Ids : get_session("s1", id)
    \/ list_sessions("s1", None, DefaultListLimit)
    \/ \E q \in Words : query_sessions("s1", q, None, None, DefaultQueryLimit)

Spec == Init /\ [][Next]_vars

(***************************************************************************)
(* One store, sessions that differ in their structured fields              *)
(***************************************************************************)
RoundTripSessions ==
    {Session(id, "x", "/p", <<"auth">>, <<"jwt">>, tags, other[1], other[2],
             DateTime(1, usec, tz), meta) :
        id \in Ids,
        tags \in {<<>>, <<"auth">>, <<"auth", "css">>},
        other \in {<< <<>>, <<>> >>, << <<"jwt">>, <<"css", "auth">> >>},
        usec \in {0, 5}, tz \in {<<>>, <<0>>},
        meta \in {<<>>, << <<"k", "v">> >>}}

NextRoundTrip ==
    \/ \E s \in RoundTripSessions : write_session("s1", s)
    \/ \E id \in Ids : delete_session("s1", id)
    \/ \E id \in Ids : get_session("s1", id)

SpecRoundTrip == Init /\ [][NextRoundTrip]_vars

(***************************************************************************)
(* One store, sessions that differ in project_path and agent_source        *)
(***************************************************************************)
FilterSessions ==
    {Session(id, agent, project, <<"auth">>, <<>>, <<>>, <<>>, <<>>, Utc(1), <<>>) :
        id \in Ids, project \in {"", "/p", "/q"}, agent \in {"", "x"}}

ProjectFilters == {None, Some(""), Some("/p")}
AgentFilters == {None, Some(""), Some("x")}

NextFilter ==
    \/ \E s \in FilterSessions : write_session("s1", s)
    \/ \E id \in Ids : delete_session("s1", id)
    \/ \E q \in {"auth", "css"}, p \in ProjectFilters, a \in AgentFilters :
          query_sessions("s1", q, p, a, DefaultQueryLimit)

SpecFilter == Init /\ [][NextFilter]_vars

(***************************************************************************)
(* One store, sessions that differ in project_path and created_at, listed  *)
(* and searched under several limits                                       *)
(***************************************************************************)
ListSessions ==
    {Session(id, "x", project, <<"auth">>, <<>>, <<>>, <<>>, <<>>,
             DateTime(created[1], created[2], <<0>>), <<>>) :
        id \in Ids, project \in {"", "/p"},
        created \in {<<1, 0>>, <<1, 5>>, <<2, 0>>}}

ListFilters == {None, Some(""), Some("/p"), Some("/other")}
ListLimits == {-1, 0, 1, DefaultListLimit}
QueryLimits == {-1, 0, 1, DefaultQueryLimit}

NextList ==
    \/ \E s \in ListSessions : write_session("s1", s)
    \/ \E id \in Ids : delete_session("s1", id)
    \/ \E p \in ListFilters, n \in ListLimits : list_sessions("s1", p, n)
    \/ \E n \in QueryLimits : query_sessions("s1", "auth", None, None, n)

SpecList == Init /\ [][NextList]_vars

(***************************************************************************)
(* The free text of a search: the FTS5 query syntax                        *)
(***************************************************************************)
\* query_sessions binds the caller's text to `sessions_fts MATCH ?`, and
\* FTS5 parses it as a query expression. A text is a sequence of lexemes:
\* barewords (a quoted single word counts as one), the operator keywords,
\* a hyphen, a quote that is never closed.
Fts5Operators == {"AND", "OR", "NOT"}
Fts5Special == {"-", "\""}
IsBareword(x) == x \notin Fts5Operators \cup Fts5Special

Has(text, x) == \E i \in DOMAIN text : text[i] = x
FirstIndex(text, x) == CHOOSE i \in DOMAIN text : text[i] = x /\ \A j \in 1..(i - 1) : text[j] # x
LastIndex(text, x) == CHOOSE i \in DOMAIN text : text[i] = x /\ \A j \in (i + 1)..Len(text) : text[j] # x
LeftOf(text, i) == SubSeq(text, 1, i - 1)
RightOf(text, i) == SubSeq(text, i + 1, Len(text))

\* The grammar: OR binds loosest, then AND, then NOT (binary, grouping to
\* the left); an operand is a non-empty run of barewords (implicit AND).
RECURSIVE Fts5Wellformed(_)
Fts5Wellformed(text) ==
    IF Has(text, "OR")
    THEN Fts5Wellformed(LeftOf(text, FirstIndex(text, "OR")))
           /\ Fts5Wellformed(RightOf(text, FirstIndex(text, "OR")))
    ELSE IF Has(text, "AND")
    THEN Fts5Wellformed(LeftOf(text, FirstIndex(text, "AND")))
           /\ Fts5Wellformed(RightOf(text, FirstIndex(text, "AND")))
    ELSE IF Has(text, "NOT")
    THEN Fts5Wellformed(LeftOf(text, LastIndex(text, "NOT")))
           /\ Fts5Wellformed(RightOf(text, LastIndex(text, "NOT")))
    ELSE text # <<>> /\ \A i \in DOMAIN text : IsBareword(text[i])

\* Does an index entry holding `terms` match the well-formed text.
RECURSIVE Fts5Eval(_, _)
Fts5Eval(terms, text) ==
    IF Has(text, "OR")
    THEN Fts5Eval(terms, LeftOf(text, FirstIndex(text, "OR")))
           \/ Fts5Eval(terms, RightOf(text, FirstIndex(text, "OR")))
    ELSE IF Has(text, "AND")
    THEN Fts5Eval(terms, LeftOf(text, FirstIndex(text, "AND")))
           /\ Fts5Eval(terms, RightOf(text, FirstIndex(text, "AND")))
    ELSE IF Has(text, "NOT")
    THEN Fts5Eval(terms, LeftOf(text, LastIndex(text, "NOT")))
           /\ ~Fts5Eval(terms, RightOf(text, LastIndex(text, "NOT")))
    ELSE \A i \in DOMAIN text : text[i] \in terms

\* The sqlite3.OperationalError a text that is no query expression raises.
Fts5Error(text) ==
    IF Has(text, "\"") THEN "unterminated string"
    ELSE IF \E i \in DOMAIN text :
               text[i] = "-" /\ i < Len(text) /\ IsBareword(text[i + 1])
    THEN "no such column"
    ELSE "fts5: syntax error"

\* SessionStore.query_sessions on a free text.
SelectMatchQuery(db, text, project_path, agent_source, limit) ==
    LET ok == Fts5Wellformed(text)
        matched == IF ok THEN {r \in RowIds : Fts5Eval(db.fts[r], text)} ELSE {}
        sel == {r \in matched \cap DOMAIN db.rows :
                  /\ Truthy(project_path) => db.rows[r].project_path = project_path[1]
                  /\ Truthy(agent_source) => db.rows[r].agent_source = agent_source[1]}
    IN  IF limit = 0 THEN Result(<<>>)
        ELSE IF ~ok THEN Raised(Fts5Error(text))
        ELSE IF matched \ DOMAIN db.rows # {} THEN Raised("malformed")
        ELSE Decode(db.rows, Limit(OrderByCreatedDesc(db.rows, sel, TRUE), limit))

(***************************************************************************)
(* The server shell (mcp/server.py) over one store                         *)
(***************************************************************************)
\* The arguments of the write_session tool: each is None when the caller
\* left it out.
WriteArgs(agent_source, project_path, title, summary, tags) ==
    [agent_source |-> agent_source, project_path |-> project_path,
     title |-> title, summary |-> summary, tags |-> tags]

\* What the tool signature and the Session model demand: the four str
\* fields are present. No field has a length constraint.
Validates(args) ==
    /\ args.agent_source # None
    /\ args.project_path # None
    /\ args.title # None
    /\ args.summary # None

\* A variant that drops the sequence that was passed.
OrEmptyAlways(opt) == <<>>

\* `tags or []`
OrEmpty(opt) == IF opt = None THEN <<>> ELSE opt[1]

\* server write_session: build the Session (id from uuid4, created_at from
\* the clock), store.write_session, answer {"id", "status", "title"}.
server_write_session(c, args, id, now) ==
    /\ Alone(c)
    /\ NewRowid(file.rows) <= MaxRowid
    /\ IF Validates(args)
       THEN LET s == Session(id, args.agent_source[1], args.project_path[1],
                             args.title[1], args.summary[1], OrEmpty(args.tags),
                             <<>>, <<>>, now, <<>>)
            IN  /\ file' = InsertOrReplace(file, session_to_row(s))
                /\ call' = [call EXCEPT ![c] = WriteCall(s)]
                /\ hist' = [hist EXCEPT ![s.id] = HistAfter(@, WriteCall(s), FALSE)]
                /\ ret'  = [ret EXCEPT ![c] =
                              Ret("server.write_session", s.id, "", None, None, 0,
                                  Result(<<[id |-> s.id, status |-> "saved", title |-> s.title]>>),
                                  FALSE)]
       ELSE /\ ret'  = [ret EXCEPT ![c] =
                          Ret("server.write_session", "", "", None, None, 0,
                              Raised("ValidationError"), FALSE)]
            /\ call' = [call EXCEPT ![c] = NoCall]
            /\ UNCHANGED <<file, hist>>
    /\ IF Validates(args) THEN get_conn(c, TRUE) ELSE UNCHANGED <<conn, disk>>
    /\ UNCHANGED <<txn, lock, work, pc, pre, done, fs, note>>

\* The return value of a tool: a str or a dict.
Str(parts) == [type |-> "str", value |-> parts]
Dict(fields) == [type |-> "dict", value |-> fields]

\* A variant that takes a session of empty title for no session.
GetResponseIfTitle(id, found) ==
    IF found.sessions = <<>> \/ found.sessions[1].title = <<>>
    THEN Str(<<"Session ", id, " not found">>)
    ELSE LET session == found.sessions[1]
         IN  Dict([id |-> session.id, agent_source |-> session.agent_source,
                   project_path |-> session.project_path, title |-> session.title,
                   summary |-> session.summary, tags |-> session.tags,
                   key_decisions |-> session.key_decisions,
                   files_modified |-> session.files_modified,
                   created_at |-> isoformat(session.created_at),
                   metadata |-> session.metadata])

\* server get_session: `if not session` holds for None only (a Session
\* object is always truthy).
GetResponse(id, found) ==
    IF found.sessions = <<>>
    THEN Str(<<"Session ", id, " not found">>)
    ELSE LET session == found.sessions[1]
         IN  Dict([id |-> session.id, agent_source |-> session.agent_source,
                   project_path |-> session.project_path, title |-> session.title,
                   summary |-> session.summary, tags |-> session.tags,
                   key_decisions |-> session.key_decisions,
                   files_modified |-> session.files_modified,
                   created_at |-> isoformat(session.created_at),
                   metadata |-> session.metadata])

\* What a tool answers when the store call returned `res`.
Respond(res, shaped) == IF res.ok THEN Result(shaped) ELSE res

server_get_session(c, session_id) ==
    LET found == SelectById(View(c), session_id)
    IN  Read(c, "server.get_session", session_id, "", None, None, 0,
             Respond(found, <<GetResponse(session_id, found)>>))

SummaryPrefix == 200

\* A variant that cuts summaries of SummaryPrefix characters too.
TruncateFrom(summary) ==
    SubSeq(summary, 1, Min2(SummaryPrefix, Len(summary)))
      \o (IF Len(summary) >= SummaryPrefix THEN <<"...">> ELSE <<>>)

\* s.summary[:200] + ("..." if len(s.summary) > 200 else "")
Truncate(summary) ==
    SubSeq(summary, 1, Min2(SummaryPrefix, Len(summary)))
      \o (IF Len(summary) > SummaryPrefix THEN <<"...">> ELSE <<>>)

ListResponse(s) ==
    Dict([id |-> s.id, agent_source |-> s.agent_source, project_path |-> s.project_path,
          title |-> s.title, summary |-> Truncate(s.summary), tags |-> s.tags,
          created_at |-> isoformat(s.created_at)])

server_list_sessions(c, project_path, limit) ==
    LET res == SelectList(View(c), project_path, limit)
    IN  Read(c, "server.list_sessions", "", "", project_path, None, limit,
             Respond(res, [i \in DOMAIN res.sessions |-> ListResponse(res.sessions[i])]))

QueryResponse(s) ==
    Dict([id |-> s.id, agent_source |-> s.agent_source, project_path |-> s.project_path,
          title |-> s.title, summary |-> s.summary, tags |-> s.tags,
          key_decisions |-> s.key_decisions, files_modified |-> s.files_modified,
          created_at |-> isoformat(s.created_at)])

\* server query_context: store.query_sessions on the caller's text.
query_context(c, query, project_path, agent_source, limit) ==
    LET res == SelectMatchQuery(View(c), query, project_path, agent_source, limit)
    IN  Read(c, "query_context", "", query, project_path, agent_source, limit,
             Respond(res, [i \in DOMAIN res.sessions |-> QueryResponse(res.sessions[i])]))

\* A text of n characters.
Chars(n) == [i \in 1..n |-> "x"]

ShellTitles == {None, Some(<<>>), Some(<<"auth">>)}
ShellSummaries == {Some(<<"css">>), Some(Chars(SummaryPrefix)), Some(Chars(SummaryPrefix + 1))}

\* Tags are passed with the short summary and left out with the long ones.
ShellArgs ==
    {WriteArgs(Some("x"), Some("/p"), title, summary,
               IF summary = Some(<<"css">>) THEN Some(<<"jwt">>) ELSE None) :
        title \in ShellTitles, summary \in ShellSummaries}

NextShell ==
    \/ \E args \in ShellArgs, id \in Ids : server_write_session("s1", args, id, Utc(1))
    \/ \E id \in Ids : server_get_session("s1", id)
    \/ server_list_sessions("s1", None, DefaultListLimit)
    \/ \E id \in Ids : delete_session("s1", id)

SpecShell == Init /\ [][NextShell]_vars

\* Calls that pass, leave out, or pass empty their tags.
TaggedArgs ==
    {WriteArgs(Some(agent), Some("/p"), Some(title), Some(<<"css">>), tags) :
        agent \in {"x", "y"}, title \in {<<>>, <<"auth">>},
        tags \in {None, Some(<<>>), Some(<<"jwt">>), Some(<<"jwt", "auth">>)}}

NextShellWrite ==
    \/ \E args \in TaggedArgs, id \in Ids : server_write_session("s1", args, id, Utc(1))
    \/ \E id \in Ids : server_get_session("s1", id)
    \/ \E id \in Ids : delete_session("s1", id)

SpecShellWrite == Init /\ [][NextShellWrite]_vars

QuerySessions ==
    {Session(id, "x", "/p", title, <<>>, <<>>, <<>>, <<>>, Utc(1), <<>>) :
        id \in Ids, title \in {<<"auth">>, <<"css">>}}

\* Free texts: a word, two words, each operator in and out of place, a
\* hyphenated word, an open quote, nothing.
QueryTexts ==
    {<<>>, <<"auth">>, <<"jwt">>, <<"auth", "css">>,
     <<"auth", "OR", "css">>, <<"auth", "AND", "css">>, <<"auth", "NOT", "css">>,
     <<"AND">>, <<"NOT", "auth">>, <<"jwt", "-", "css">>, <<"\"", "jwt">>}

NextQueryText ==
    \/ \E s \in QuerySessions : write_session("s1", s)
    \/ \E id \in Ids : delete_session("s1", id)
    \/ \E q \in QueryTexts : query_context("s1", q, None, None, DefaultQueryLimit)

SpecQueryText == Init /\ [][NextQueryText]_vars

(***************************************************************************)
(* Several stores (server processes) on one database file                  *)
(***************************************************************************)
\* The history after store c's call cl returned.
Returned(c, cl, ok) ==
    [calls  |-> IF ok THEN Append(done.calls, cl) ELSE done.calls,
     failed |-> IF ok THEN done.failed ELSE done.failed + 1,
     by     |-> c]

InFlight == Cardinality({c \in Stores : pc[c] = "commit"})

\* conn.execute of write_session / delete_session: sqlite3 opens a
\* transaction before the statement (implicit BEGIN) unless one is open;
\* the statement needs the RESERVED lock and raises "database is locked"
\* when it is refused, which skips conn.commit and leaves the transaction open.
\* On a store without a handle _get_conn runs first, and when its schema
\* script is refused the statement is never reached.
Execute(c, cl) ==
    /\ pc[c] = "idle"
    /\ Len(done.calls) + done.failed + InFlight < MaxCalls
    /\ get_conn(c, CanShare(c))
    /\ txn'  = [txn EXCEPT ![c] = conn[c].ref \/ CanShare(c)]
    /\ IF CanReserve(c)
       THEN /\ work' = [work EXCEPT ![c] = Apply(cl, View(c))]
            /\ lock' = [lock EXCEPT ![c] = IF @ = "pending" THEN @ ELSE "reserved"]
            /\ pc'   = [pc EXCEPT ![c] = "commit"]
            /\ pre'  = [pre EXCEPT ![c] = View(c)]
            /\ call' = [call EXCEPT ![c] = cl]
            /\ UNCHANGED <<ret, done>>
       ELSE /\ ret'  = [ret EXCEPT ![c] =
                          Ret(cl.op, cl.id, "", None, None, 0, Raised("locked"), FALSE)]
            /\ done' = Returned(c, cl, FALSE)
            /\ UNCHANGED <<work, lock, pc, pre, call>>
    /\ UNCHANGED <<file, hist, fs, note>>

write_session_execute(c, s) == Execute(c, WriteCall(s))

delete_session_execute(c, id) == Execute(c, DeleteCall(id))

\* conn.commit and the return: the commit needs the EXCLUSIVE lock; when a
\* reader holds the file it raises "database is locked", the connection
\* keeps its transaction with the changes (the store never rolls back) and
\* holds the PENDING lock.
commit(c) ==
    /\ pc[c] = "commit"
    /\ pc'   = [pc EXCEPT ![c] = "idle"]
    /\ pre'  = [pre EXCEPT ![c] = EmptyDb]
    /\ call' = [call EXCEPT ![c] = NoCall]
    /\ IF CanCommit(c)
       THEN /\ file' = work[c]
            /\ work' = [work EXCEPT ![c] = EmptyDb]
            /\ txn'  = [txn EXCEPT ![c] = FALSE]
            /\ lock' = [lock EXCEPT ![c] = "none"]
            /\ ret'  = [ret EXCEPT ![c] =
                          Ret(call[c].op, call[c].id, "", None, None, 0,
                              Result(call[c].session),
                              call[c].op = "delete_session"
                                /\ DeleteRowcount(pre[c], call[c].id) > 0)]
            /\ done' = Returned(c, call[c], TRUE)
       ELSE /\ lock' = [lock EXCEPT ![c] = "pending"]
            /\ ret'  = [ret EXCEPT ![c] =
                          Ret(call[c].op, call[c].id, "", None, None, 0,
                              Raised("locked"), FALSE)]
            /\ done' = Returned(c, call[c], FALSE)
            /\ UNCHANGED <<file, work, txn>>
    /\ UNCHANGED <<hist, conn, disk, fs, note>>

\* A variant that closes without testing for a handle.
close_untested(c) ==
    /\ pc[c] = "idle"
    /\ txn'  = [txn EXCEPT ![c] = FALSE]
    /\ lock' = [lock EXCEPT ![c] = "none"]
    /\ work' = [work EXCEPT ![c] = EmptyDb]
    /\ ret'  = [ret EXCEPT ![c] = Ret("close", "", "", None, None, 0, Result(<<>>), FALSE)]
    /\ conn' = [conn EXCEPT ![c] = [ref |-> FALSE, live |-> @.live - 1]]
    /\ UNCHANGED <<file, pc, call, hist, pre, done, disk, fs, note>>

\* close: closing the connection rolls back its open transaction and
\* releases its lock; the next call opens a new connection. Without a
\* handle (`if self._conn` fails) close does nothing.
close(c) ==
    /\ pc[c] = "idle"
    /\ txn'  = [txn EXCEPT ![c] = FALSE]
    /\ lock' = [lock EXCEPT ![c] = "none"]
    /\ work' = [work EXCEPT ![c] = EmptyDb]
    /\ ret'  = [ret EXCEPT ![c] = Ret("close", "", "", None, None, 0, Result(<<>>), FALSE)]
    /\ conn' = [conn EXCEPT ![c] = IF @.ref THEN [ref |-> FALSE, live |-> @.live - 1] ELSE @]
    /\ UNCHANGED <<file, pc, call, hist, pre, done, disk, fs, note>>

ConcSessions ==
    {Session(id, "x", "/p", title, <<>>, <<>>, <<>>, <<>>, Utc(1), <<>>) :
        id \in Ids, title \in {<<"auth">>, <<"css">>}}

NextConc ==
    \E c \in Stores :
        \/ \E s \in ConcSessions : write_session_execute(c, s)
        \/ \E id \in Ids : delete_session_execute(c, id)
        \/ commit(c)
        \/ \E id \in Ids : get_session(c, id)
        \/ list_sessions(c, None, DefaultListLimit)
        \/ query_sessions(c, "auth", None, None, DefaultQueryLimit)
        \/ close(c)

SpecConc == Init /\ [][NextConc]_vars

(***************************************************************************)
(* Stores that open, use and close their handle, one call at a time        *)
(***************************************************************************)
LifeSessions ==
    {Session(id, "x", "/p", <<"auth">>, <<>>, <<>>, <<>>, <<>>, Utc(sec), <<>>) :
        id \in Ids, sec \in {1, 2}}

NextLife ==
    \E c \in Stores :
        \/ \E s \in LifeSessions : write_session(c, s)
        \/ \E id \in Ids : delete_session(c, id)
        \/ \E id \in Ids : get_session(c, id)
        \/ close(c)

SpecLife == Init /\ [][NextLife]_vars

(***************************************************************************)
(* One store reading a file in which another writer left malformed text    *)
(***************************************************************************)
\* The columns are plain TEXT: a writer other than SessionStore can leave a
\* tags text that is no JSON in a row (title and summary, and with them the
\* index, stay as they are).
corrupt(r) ==
    /\ \A c \in Stores : lock[c] = "none" /\ pc[c] = "idle"
    /\ r \in DOMAIN file.rows
    /\ RowValid(file.rows[r])
    /\ file' = [file EXCEPT !.rows = [@ EXCEPT ![r] = [@ EXCEPT !.tags = <<"[", "jwt">>]]]
    /\ UNCHANGED <<txn, lock, work, pc, call, ret, hist, pre, done, conn, disk, fs, note>>

NextMalformed ==
    \/ \E s \in LifeSessions : write_session("s1", s)
    \/ \E id \in Ids : delete_session("s1", id)
    \/ \E r \in RowIds : corrupt(r)
    \/ \E id \in Ids : get_session("s1", id)
    \/ \E n \in {1, DefaultListLimit} : list_sessions("s1", None, n)
    \/ query_sessions("s1", "auth", None, None, DefaultQueryLimit)

SpecMalformed == Init /\ [][NextMalformed]_vars

(***************************************************************************)
(* The installer's marker blocks (agentshare.mcp.installer)                *)
(***************************************************************************)
\* A text is a sequence of lexemes: a marker, a newline, a blank, or a
\* word; a file is None (it does not exist) or Some(text).
RULES_MARKER_START == "<!-- agentshare:start -->"
RULES_MARKER_END == "<!-- agentshare:end -->"
TOML_MARKER_START == "# agentshare:start"
TOML_MARKER_END == "# agentshare:end"

Whitespace == {"\n", " "}

\* str.find of a one-lexeme needle: the 0-based index of its first
\* occurrence, or -1.
find(text, needle) ==
    IF \E i \in DOMAIN text : text[i] = needle
    THEN (CHOOSE i \in DOMAIN text :
             text[i] = needle /\ \A j \in 1..(i - 1) : text[j] # needle) - 1
    ELSE -1

\* With a 0-based n, text[:n] is SubSeq(text, 1, n) and text[n:] is
\* SubSeq(text, n + 1, Len(text)).
rstrip(text) ==
    SubSeq(text, 1, Max({0} \cup {i \in DOMAIN text : text[i] \notin Whitespace}))

lstrip(text) ==
    IF \A i \in DOMAIN text : text[i] \in Whitespace
    THEN <<>>
    ELSE SubSeq(text, CHOOSE i \in DOMAIN text :
                          /\ text[i] \notin Whitespace
                          /\ \A j \in 1..(i - 1) : text[j] \in Whitespace,
                Len(text))

\* f"{RULES_MARKER_START}\n{content}\n{RULES_MARKER_END}"
make_marker_block(content) ==
    <<RULES_MARKER_START, "\n">> \o content \o <<"\n", RULES_MARKER_END>>

\* "\n".join(block_lines)
toml_block(executable) ==
    <<TOML_MARKER_START, "\n", "[mcp_servers.agentshare]", "\n",
      "command = ", executable, "\n", "args = [\"mcp\", \"serve\"]", "\n",
      TOML_MARKER_END>>

\* A variant that appends the block whatever the file holds.
inject_block_appending(f, block, marker_start, marker_end) ==
    IF f # None
    THEN LET text == f[1]
             separator == IF lstrip(rstrip(text)) # <<>> THEN <<"\n", "\n">> ELSE <<>>
         IN  Some(rstrip(text) \o separator \o block \o <<"\n">>)
    ELSE Some(block \o <<"\n">>)

\* The body _inject_marker_block and _inject_toml_config share: replace
\* the text from the first start marker to the first end marker when both
\* are found, else append the block after a blank line.
inject_block(f, block, marker_start, marker_end) ==
    IF f # None
    THEN LET text == f[1]
             start == find(text, marker_start)
             end == find(text, marker_end)
             separator == IF lstrip(rstrip(text)) # <<>> THEN <<"\n", "\n">> ELSE <<>>
         IN  IF start # -1 /\ end # -1
             THEN Some(SubSeq(text, 1, start) \o block \o SubSeq(text, end + 2, Len(text)))
             ELSE Some(rstrip(text) \o separator \o block \o <<"\n">>)
    ELSE Some(block \o <<"\n">>)

\* A variant that writes the cleaned text even when it is empty.
remove_block_keeping_file(f, marker_start, marker_end) ==
    IF f = None
    THEN f
    ELSE LET text == f[1]
             start == find(text, marker_start)
             end == find(text, marker_end)
             before == rstrip(SubSeq(text, 1, start))
             after == lstrip(SubSeq(text, end + 2, Len(text)))
             separator == IF before # <<>> /\ after # <<>> THEN <<"\n", "\n">>
                          ELSE IF before # <<>> \/ after # <<>> THEN <<"\n">> ELSE <<>>
         IN  IF start = -1 \/ end = -1 THEN f ELSE Some(before \o separator \o after)

\* The body _remove_marker_block and _remove_toml_config share; the file
\* is unlinked when nothing but white space is left.
remove_block(f, marker_start, marker_end) ==
    IF f = None
    THEN f
    ELSE LET text == f[1]
             start == find(text, marker_start)
             end == find(text, marker_end)
             before == rstrip(SubSeq(text, 1, start))
             after == lstrip(SubSeq(text, end + 2, Len(text)))
             separator == IF before # <<>> /\ after # <<>> THEN <<"\n", "\n">>
                          ELSE IF before # <<>> \/ after # <<>> THEN <<"\n">> ELSE <<>>
             cleaned == before \o separator \o after
         IN  IF start = -1 \/ end = -1
             THEN f
             ELSE IF lstrip(rstrip(cleaned)) # <<>> THEN Some(cleaned) ELSE None

\* The calls, on the rules file and on the TOML config. Every one of them
\* returns True.
inject_marker_block(content) ==
    /\ fs' = [fs EXCEPT !.rules = inject_block(@, make_marker_block(content),
                                                 RULES_MARKER_START, RULES_MARKER_END)]
    /\ note' = [note EXCEPT !.op = "_inject_marker_block", !.ok = TRUE,
                            !.content = Some(content),
                            !.calls.rules = Min2(@ + 1, 2)]
    /\ UNCHANGED <<file, txn, lock, work, pc, call, ret, hist, pre, done, conn, disk>>

inject_toml_config(executable) ==
    /\ fs' = [fs EXCEPT !.toml = inject_block(@, toml_block(executable),
                                               TOML_MARKER_START, TOML_MARKER_END)]
    /\ note' = [note EXCEPT !.op = "_inject_toml_config", !.ok = TRUE,
                            !.executable = Some(executable),
                            !.calls.toml = Min2(@ + 1, 2)]
    /\ UNCHANGED <<file, txn, lock, work, pc, call, ret, hist, pre, done, conn, disk>>

remove_marker_block ==
    /\ fs' = [fs EXCEPT !.rules = remove_block(@, RULES_MARKER_START, RULES_MARKER_END)]
    /\ note' = [note EXCEPT !.op = "_remove_marker_block", !.ok = TRUE]
    /\ UNCHANGED <<file, txn, lock, work, pc, call, ret, hist, pre, done, conn, disk>>

remove_toml_config ==
    /\ fs' = [fs EXCEPT !.toml = remove_block(@, TOML_MARKER_START, TOML_MARKER_END)]
    /\ note' = [note EXCEPT !.op = "_remove_toml_config", !.ok = TRUE]
    /\ UNCHANGED <<file, txn, lock, work, pc, call, ret, hist, pre, done, conn, disk>>

\* The store as Init leaves it.
StoreInit ==
    /\ file = EmptyDb
    /\ txn  = [c \in Stores |-> FALSE]
    /\ lock = [c \in Stores |-> "none"]
    /\ work = [c \in Stores |-> EmptyDb]
    /\ pc   = [c \in Stores |-> "idle"]
    /\ call = [c \in Stores |-> NoCall]
    /\ ret  = [c \in Stores |-> NoRet]
    /\ hist = [i \in Ids |-> [cur |-> None, old |-> {}, deleted |-> FALSE]]
    /\ pre  = [c \in Stores |-> EmptyDb]
    /\ done = [calls |-> <<>>, failed |-> 0, by |-> "s1"]
    /\ conn = [c \in Stores |-> [ref |-> FALSE, live |-> 0]]
    /\ disk = [dir |-> FALSE, schema |-> FALSE]

\* Files without a marker: missing, empty, blank, and texts that end with
\* or without white space.
PlainFiles ==
    {None, Some(<<>>), Some(<<"\n">>), Some(<<"a">>), Some(<<"a", "\n">>),
     Some(<<"a", " ", "\n", "\n">>), Some(<<"\n", "a", "\n", "b", "\n">>)}

Executables == {"/usr/bin/agentshare", "/new/path/agentshare"}

InitInject ==
    /\ StoreInit
    /\ \E r \in PlainFiles, t \in PlainFiles :
          /\ fs = [NoFiles EXCEPT !.rules = r, !.toml = t]
          /\ note = [NoNote EXCEPT !.rules = r, !.toml = t]

NextInject ==
    \/ \E content \in {<<"c">>, <<"d", "\n", "c">>} : inject_marker_block(content)
    \/ \E executable \in Executables : inject_toml_config(executable)

SpecInject == InitInject /\ [][NextInject]_vars

\* Files without a marker, files that hold a block between other text,
\* and files with a start marker alone.
InitRemove ==
    /\ StoreInit
    /\ \E r \in PlainFiles \cup
                 {Some(<<"a", "\n", "\n">> \o make_marker_block(<<"c">>) \o <<"\n", "\n", "b", "\n">>),
                  Some(<<" ", "\n">> \o make_marker_block(<<"c">>) \o <<"\n", "b">>),
                  Some(<<RULES_MARKER_START, "\n", "a">>)},
          t \in {None, Some(<<"a", "\n">>),
                 Some(<<"a", "\n", "\n">> \o toml_block("/usr/bin/agentshare")
                        \o <<"\n", "\n", "b", "\n">>),
                 Some(<<"a", "\n", TOML_MARKER_START>>)} :
          /\ fs = [NoFiles EXCEPT !.rules = r, !.toml = t]
          /\ note = [NoNote EXCEPT !.rules = r, !.toml = t]

NextRemove ==
    \/ inject_marker_block(<<"c">>)
    \/ inject_toml_config("/usr/bin/agentshare")
    \/ remove_marker_block
    \/ remove_toml_config

SpecRemove == InitRemove /\ [][NextRemove]_vars

(***************************************************************************)
(* The installer's JSON config (agentshare.mcp.installer)                  *)
(***************************************************************************)
\* JSON values: null, a string, or an object (a map from keys to values).
JNull == [t |-> "null", m |-> <<>>, s |-> ""]
JString(s) == [t |-> "string", m |-> <<>>, s |-> s]
JObject(m) == [t |-> "object", m |-> m, s |-> ""]

\* config[key] = value
Put(m, key, value) == [k \in DOMAIN m \cup {key} |-> IF k = key THEN value ELSE m[k]]

\* A config file's text: does it parse, the value it holds (an object at
\* the top level), and the indent it is written with.
\* json.dumps(config, indent=2) + "\n"
json_dumps_indent(value) == [valid |-> TRUE, value |-> value, indent |-> 2]

\* {"command": executable, "args": ["mcp", "serve"]}
Entry(executable) ==
    JObject([k \in {"command", "args"} |->
                IF k = "command" THEN JString(executable) ELSE JString("mcp serve")])

\* _inject_json_config: the parsed file, or {} when the file is missing or
\* does not parse; an "mcpServers" member that is no object lets the item
\* assignment raise TypeError before anything is written.
inject_json_config(f, executable) ==
    LET config == IF f # None /\ f[1].valid THEN f[1].value.m ELSE <<>>
        with == IF "mcpServers" \notin DOMAIN config
                THEN Put(config, "mcpServers", JObject(<<>>))
                ELSE config
    IN  IF with["mcpServers"].t # "object"
        THEN [file |-> f, ok |-> FALSE, err |-> "TypeError"]
        ELSE [file |-> Some(json_dumps_indent(
                          JObject(Put(with, "mcpServers",
                                      JObject(Put(with["mcpServers"].m, "agentshare",
                                                  Entry(executable))))))),
              ok |-> TRUE, err |-> ""]

\* _remove_json_mcp_config: True for a missing file, False for one that
\* does not parse; the file is rewritten only when an entry was deleted.
remove_json_mcp_config(f) ==
    IF f = None
    THEN [file |-> f, ok |-> TRUE, err |-> ""]
    ELSE IF ~f[1].valid
    THEN [file |-> f, ok |-> FALSE, err |-> ""]
    ELSE LET config == f[1].value.m
             servers == IF "mcpServers" \in DOMAIN config
                        THEN config["mcpServers"] ELSE JObject(<<>>)
         IN  IF servers.t = "null"
             THEN [file |-> f, ok |-> FALSE, err |-> "TypeError"]
             ELSE IF "agentshare" \in DOMAIN servers.m
             THEN [file |-> Some(json_dumps_indent(
                               JObject(Put(config, "mcpServers",
                                           JObject([k \in DOMAIN servers.m \ {"agentshare"} |->
                                                      servers.m[k]]))))),
                   ok |-> TRUE, err |-> ""]
             ELSE [file |-> f, ok |-> TRUE, err |-> ""]

InjectJson(executable) ==
    LET r == inject_json_config(fs.json, executable)
    IN  /\ fs' = [fs EXCEPT !.json = r.file]
        /\ note' = [note EXCEPT !.op = "_inject_json_config", !.ok = r.ok, !.err = r.err,
                                !.executable = Some(executable)]
        /\ UNCHANGED <<file, txn, lock, work, pc, call, ret, hist, pre, done, conn, disk>>

RemoveJson ==
    LET r == remove_json_mcp_config(fs.json)
    IN  /\ fs' = [fs EXCEPT !.json = r.file]
        /\ note' = [note EXCEPT !.op = "_remove_json_mcp_config", !.ok = r.ok, !.err = r.err]
        /\ UNCHANGED <<file, txn, lock, work, pc, call, ret, hist, pre, done, conn, disk>>

\* Config files: missing, unparsable, and objects with or without a
\* "theme" member and with an "mcpServers" member that is absent, null, or
\* an object holding any of another server's entry and an older agentshare
\* entry.
JsonFiles ==
    LET ServerMaps ==
            {[k \in names |-> IF k = "agentshare" THEN Entry("/old/agentshare")
                              ELSE JObject([c \in {"command"} |-> JString("other")])] :
                names \in SUBSET {"agentshare", "other-server"}}
        JsonObjects ==
            {JObject(top) : top \in
                UNION {{base, Put(base, "mcpServers", JNull)}
                         \cup {Put(base, "mcpServers", JObject(m)) : m \in ServerMaps} :
                       base \in {<<>>, [k \in {"theme"} |-> JString("dark")],
                                  [k \in {"theme", "version"} |-> JString("dark")]}}}
    IN  {None, Some([valid |-> FALSE, value |-> JNull, indent |-> 0])}
          \cup {Some([valid |-> TRUE, value |-> v, indent |-> 0]) : v \in JsonObjects}

InitJson ==
    /\ StoreInit
    /\ \E j \in JsonFiles :
          /\ fs = [NoFiles EXCEPT !.json = j]
          /\ note = [NoNote EXCEPT !.json = j]

NextJson ==
    \/ \E executable \in Executables : InjectJson(executable)
    \/ RemoveJson

SpecJson == InitJson /\ [][NextJson]_vars

(***************************************************************************)
(* The skills registry (agentshare.skills.registry)                        *)
(***************************************************************************)
\* The registry is the set of skill directories SKILLS_DIR/category/name,
\* each with the description its SKILL.md holds; the name and the category
\* in a registered SKILL.md are those of its directory.
Skill(category, name, description) ==
    [category |-> category, name |-> name, description |-> description]

\* list_skills: the category directories in sorted order, the skill
\* directories of each in sorted order (Alphabet: the order of sorted()
\* on the directory names in use).
list_skills(dir) ==
    LET Alphabet == <<"a", "uncategorized", "x", "y">>
        Pos(word) == CHOOSE i \in DOMAIN Alphabet : Alphabet[i] = word
        Precedes(s, u) ==
            \/ Pos(s.category) < Pos(u.category)
            \/ s.category = u.category /\ Pos(s.name) < Pos(u.name)
        RECURSIVE Sorted(_)
        Sorted(rest) ==
            IF rest = {}
            THEN <<>>
            ELSE LET first == CHOOSE s \in rest : \A u \in rest \ {s} : Precedes(s, u)
                 IN  <<first>> \o Sorted(rest \ {first})
    IN  Sorted(dir)

\* get_skill: the first listed skill of that name, or None.
get_skill(dir, name) ==
    LET skills == list_skills(dir)
        hits == {i \in DOMAIN skills : skills[i].name = name}
    IN  IF hits = {} THEN None ELSE Some(skills[CHOOSE i \in hits : \A j \in hits : i <= j])

\* The directory `dest` written anew with a SKILL.md.
Written(dir, skill) ==
    {s \in dir : s.category # skill.category \/ s.name # skill.name} \cup {skill}

\* create_skill: SKILLS_DIR/category/name/SKILL.md from the template.
create_skill(dir, name, description, category) ==
    Written(dir, Skill(category, name, description))

\* parse_skill of a source directory: None without a SKILL.md; name and
\* category from the frontmatter, else the directory name and
\* "uncategorized".
parse_skill(source) ==
    IF ~source.has_file
    THEN None
    ELSE Some(Skill(IF source.category = None THEN "uncategorized" ELSE source.category[1],
                    IF source.name = None THEN source.dirname ELSE source.name[1],
                    ""))

\* add_skill: copy the source to SKILLS_DIR/category/name, replacing what
\* is there; ValueError when the source has no SKILL.md.
add_skill(dir, source) ==
    LET skill == parse_skill(source)
    IN  IF skill = None
        THEN [dir |-> dir, ok |-> FALSE, err |-> "ValueError"]
        ELSE [dir |-> Written(dir, skill[1]), ok |-> TRUE, err |-> ""]

\* remove_skill: rmtree of the first listed skill of that name.
remove_skill(dir, name) ==
    LET found == get_skill(dir, name)
    IN  IF found = None
        THEN [dir |-> dir, ok |-> FALSE]
        ELSE [dir |-> dir \ {found[1]}, ok |-> TRUE]

CreateSkill(name, description, category) ==
    /\ fs' = [fs EXCEPT !.skills = create_skill(@, name, description, category)]
    /\ note' = [note EXCEPT !.op = "create_skill", !.ok = TRUE, !.err = ""]
    /\ UNCHANGED <<file, txn, lock, work, pc, call, ret, hist, pre, done, conn, disk>>

AddSkill(source) ==
    LET r == add_skill(fs.skills, source)
    IN  /\ fs' = [fs EXCEPT !.skills = r.dir]
        /\ note' = [note EXCEPT !.op = "add_skill", !.ok = r.ok, !.err = r.err]
        /\ UNCHANGED <<file, txn, lock, work, pc, call, ret, hist, pre, done, conn, disk>>

RemoveSkill(name) ==
    LET r == remove_skill(fs.skills, name)
    IN  /\ fs' = [fs EXCEPT !.skills = r.dir]
        /\ note' = [note EXCEPT !.op = "remove_skill", !.ok = r.ok, !.err = ""]
        /\ UNCHANGED <<file, txn, lock, work, pc, call, ret, hist, pre, done, conn, disk>>

SkillNames == {"x", "y"}
NextSkills ==
    \/ \E name \in SkillNames, description \in {"", "d"}, category \in {"a", "uncategorized"} :
          CreateSkill(name, description, category)
    \/ \E has_file \in BOOLEAN, name \in {None, Some("y")}, category \in {None, Some("a")} :
          AddSkill([dirname |-> "x", has_file |-> has_file, name |-> name,
                    category |-> category])
    \/ \E name \in SkillNames : RemoveSkill(name)

SpecSkills == Init /\ [][NextSkills]_vars

(***************************************************************************)
(* Properties of one store (specification Spec)                            *)
(***************************************************************************)
LastRet == ret["s1"]
ReturnedIds(r) == {r.sessions[i].id : i \in DOMAIN r.sessions}
Rewritten(id) == hist[id].cur # None /\ hist[id].old # {}

\* C1: once an id has been written again with a different title/summary, a
\* query_sessions for a term that stands only in the replaced content
\* returns a result, and that result does not hold the id.
C1_RewriteDropsOldTerms ==
    \A id \in Ids :
        ( /\ LastRet.op = "query_sessions"
          /\ Rewritten(id)
          /\ LastRet.query \in hist[id].old \ sessions_fts_terms(hist[id].cur[1]) )
        => LastRet.ok /\ id \notin ReturnedIds(LastRet)

\* C2: in every reachable state the full-text index holds, for each stored
\* record, exactly the terms of its current title and summary, and holds
\* nothing under a rowid that has no record.
C2_IndexMatchesRows ==
    \A r \in RowIds :
        file.fts[r] = IF r \in DOMAIN file.rows
                      THEN sessions_fts_terms(file.rows[r]) ELSE {}

\* C3: every session query_sessions(t) returns has the term t in its current
\* title or current summary.
C3_ResultsContainTerm ==
    LastRet.op = "query_sessions" =>
        \A i \in DOMAIN LastRet.sessions :
            LastRet.query \in sessions_fts_terms(LastRet.sessions[i])

\* C4: the store holds at most one record per id, get_session(id) returns
\* the content of the latest write_session of that id (nothing when it was
\* deleted since or never written), and write_session never raises.
C4_OneRecordLatestContent ==
    /\ \A id \in Ids :
          /\ Cardinality({r \in DOMAIN file.rows : file.rows[r].id = id}) <= 1
          /\ SelectById(file, id).sessions = hist[id].cur
    /\ LastRet.op = "get_session" =>
          LastRet.ok /\ LastRet.sessions = hist[LastRet.id].cur
    /\ LastRet.op = "write_session" => LastRet.ok

\* get_session has returned the second content written under an id.
C4_Witness ==
    /\ LastRet.op = "get_session"
    /\ Rewritten(LastRet.id)
    /\ LastRet.sessions = hist[LastRet.id].cur

\* C5: after delete_session(id) returned true and until id is written
\* again, get_session(id) returns not-found and no query_sessions result
\* holds a session of that id, whatever term is searched.
C5_DeletedStaysGone ==
    /\ LastRet.op = "get_session" /\ hist[LastRet.id].deleted =>
          LastRet.ok /\ LastRet.sessions = <<>>
    /\ LastRet.op = "query_sessions" =>
          \A id \in ReturnedIds(LastRet) : ~hist[id].deleted
    /\ \A id \in Ids : hist[id].deleted =>
          \A t \in Words :
              id \notin ReturnedIds(SelectMatch(file, t, None, None, DefaultQueryLimit))

\* A term of a deleted record's old text was searched and the query
\* returned other sessions.
C5_Witness ==
    /\ LastRet.op = "query_sessions"
    /\ LastRet.ok /\ LastRet.sessions # <<>>
    /\ \E id \in Ids : hist[id].deleted /\ LastRet.query \in hist[id].old

C10_FiltersApplied ==
    LastRet.op = "query_sessions" =>
        \A i \in DOMAIN LastRet.sessions :
            /\ LastRet.query \in sessions_fts_terms(LastRet.sessions[i])
            /\ LastRet.project_path # None =>
                  LastRet.sessions[i].project_path = LastRet.project_path[1]
            /\ LastRet.agent_source # None =>
                  LastRet.sessions[i].agent_source = LastRet.agent_source[1]

(***************************************************************************)
(* Several stores (specification SpecConc)                                 *)
(***************************************************************************)
\* Store c's write/delete call returned in this step by raising "locked".
FailedStep(c) == done'.failed = done.failed + 1 /\ done'.by = c

\* What store c reads after the step.
ViewNext(c) == IF lock'[c] \in {"reserved", "pending"} THEN work'[c] ELSE file'

\* C7: a write_session or delete_session call that fails because the
\* database is locked changes nothing: when it returns, the store reads the
\* records and the index it read when the call started.
C7_FailedCallChangesNothing ==
    [][\A c \in Stores :
          FailedStep(c) => ViewNext(c) = IF pc[c] = "commit" THEN pre[c] ELSE View(c)]_vars

\* The databases that the calls numbered idxs make of db, in any order.
RECURSIVE SerialResults(_, _)
SerialResults(db, idxs) ==
    IF idxs = {} THEN {db}
    ELSE UNION {SerialResults(Apply(done.calls[i], db), idxs \ {i}) : i \in idxs}

\* C8: with several stores on one file at most one holds the write lock,
\* and the committed records and index (all that a reader of another store
\* reads) are those that the calls which succeeded produce in some serial
\* order.
C8_SerialOutcome ==
    /\ Cardinality({c \in Stores : lock[c] \in {"reserved", "pending"}}) <= 1
    /\ file \in SerialResults(EmptyDb, DOMAIN done.calls)

\* Store c's write_session call returns its session in this step.
WriteReturns(c) ==
    /\ pc[c] = "commit" /\ pc'[c] = "idle"
    /\ call[c].op = "write_session"
    /\ ret'[c].ok

InSeq(x, seq) == \E i \in DOMAIN seq : seq[i] = x

\* C9: at the moment write_session(S) returns, every store gets S from
\* get_session(S.id), finds it in list_sessions and finds it in
\* query_sessions for each term of its title and summary.
C9_VisibleOnReturn ==
    [][\A c \in Stores : WriteReturns(c) =>
          LET S == call[c].session[1]
          IN  \A d \in Stores :
                 /\ SelectById(ViewNext(d), S.id).sessions = <<S>>
                 /\ InSeq(S, SelectList(ViewNext(d), None, DefaultListLimit).sessions)
                 /\ \A t \in sessions_fts_terms(S) :
                       InSeq(S, SelectMatch(ViewNext(d), t, None, None,
                                            DefaultQueryLimit).sessions)]_vars

(***************************************************************************)
(* Listing: filter, order, limit (specification SpecList)                  *)
(***************************************************************************)
\* The sessions now stored (the latest write of each id not deleted since)
\* whose project_path is p; all of them when p is None.
StoredOf(p) ==
    LET ids == {i \in Ids : hist[i].cur # None}
    IN  {hist[i].cur[1] : i \in {k \in ids : p = None \/ hist[k].cur[1].project_path = p[1]}}

SeqSet(seq) == {seq[i] : i \in DOMAIN seq}

\* C11: list_sessions(project_path=P) with a limit that cuts nothing returns
\* each stored session whose project_path equals P once and no other, for
\* every string P (the empty string included), and all stored sessions when
\* no filter is passed.
C11_ListFilterExact ==
    ( LastRet.op = "list_sessions" /\ LastRet.limit = DefaultListLimit ) =>
        /\ LastRet.ok
        /\ SeqSet(LastRet.sessions) = StoredOf(LastRet.project_path)
        /\ Len(LastRet.sessions) = Cardinality(StoredOf(LastRet.project_path))

\* The instant a datetime denotes, in microseconds.
Instant(dt) ==
    (dt.sec - (IF dt.tz = <<>> THEN 0 ELSE 3600 * dt.tz[1])) * 1000000 + dt.usec

\* What the call recorded in r returns on the stored data as it is now.
Again(r) ==
    IF r.op = "list_sessions" THEN SelectList(file, r.project_path, r.limit)
    ELSE SelectMatch(file, r.query, r.project_path, r.agent_source, r.limit)

C13_LimitBoundsCount ==
    ( LastRet.op \in {"list_sessions", "query_sessions"} /\ LastRet.ok ) =>
        /\ Len(LastRet.sessions) <= Max({LastRet.limit, 0})
        /\ LastRet.op = "list_sessions" =>
              \A s \in StoredOf(IF Truthy(LastRet.project_path)
                                 THEN LastRet.project_path ELSE None) \ SeqSet(LastRet.sessions) :
                  \A i \in DOMAIN LastRet.sessions :
                      Instant(s.created_at) <= Instant(LastRet.sessions[i].created_at)

(***************************************************************************)
(* Search: completeness (specification Spec)                               *)
(***************************************************************************)
\* C14: query_sessions(t) without filters, under a limit that cuts nothing,
\* returns every stored session whose current title or summary contains
\* the term t.
C14_QueryComplete ==
    LastRet.op = "query_sessions" =>
        /\ LastRet.ok
        /\ \A id \in Ids :
              ( hist[id].cur # None /\ LastRet.query \in sessions_fts_terms(hist[id].cur[1]) )
                  => InSeq(hist[id].cur[1], LastRet.sessions)

(***************************************************************************)
(* Search: free text (specification SpecQueryText)                         *)
(***************************************************************************)
\* No stored session has a word of the text in its title or summary.
MatchesNothing(text) ==
    \A id \in Ids : hist[id].cur # None =>
        \A i \in DOMAIN text : text[i] \notin sessions_fts_terms(hist[id].cur[1])

\* C15: a search whose text matches no stored session returns an empty
\* sequence and raises no error, whatever the text is (empty, hyphenated,
\* with a quote or an operator word) and whatever writes, re-writes and
\* deletes came before.
C15_NoMatchIsEmpty ==
    ( LastRet.op = "query_context" /\ MatchesNothing(LastRet.query) ) =>
        LastRet.ok /\ LastRet.sessions = <<>>

(***************************************************************************)
(* Absent ids (specification Spec)                                         *)
(***************************************************************************)
\* C16: get_session(id) for an id that is not stored (never written, or
\* deleted since its last write) returns None, raises nothing and leaves
\* the records and the index as they were.
C16_GetAbsentReturnsNone ==
    [][( ret'["s1"].op = "get_session" /\ hist[ret'["s1"].id].cur = None ) =>
          /\ ret'["s1"].ok
          /\ ret'["s1"].sessions = <<>>
          /\ file' = file]_vars

\* get_session returned None for an id that was deleted, with another
\* session still stored.
C16_Witness ==
    /\ LastRet.op = "get_session"
    /\ LastRet.ok /\ LastRet.sessions = <<>>
    /\ hist[LastRet.id].deleted /\ hist[LastRet.id].cur = None
    /\ \E o \in Ids : hist[o].cur # None

\* C17: delete_session(id) raises nothing and returns true exactly when a
\* record of that id was stored when it was called; so a second
\* delete_session of the id with no write in between returns false.
C17_DeleteReturnsExisted ==
    [][ret'["s1"].op = "delete_session" =>
          /\ ret'["s1"].ok
          /\ ret'["s1"].flag = (hist[ret'["s1"].id].cur # None)]_vars

\* delete_session returned false for an id that had been deleted before,
\* while another session is stored.
C17_Witness ==
    /\ LastRet.op = "delete_session"
    /\ LastRet.ok /\ ~LastRet.flag
    /\ hist[LastRet.id].deleted
    /\ \E o \in Ids : hist[o].cur # None

(***************************************************************************)
(* The server shell (specification SpecShell)                              *)
(***************************************************************************)
\* C18: a write through the server shell whose title is the empty string
\* is rejected with a validation error and stores nothing: no such write
\* returns "saved" and no record of empty title is in the store.
C18_EmptyTitleRejected ==
    /\ ( LastRet.op = "server.write_session" /\ LastRet.ok ) =>
          LastRet.sessions[1].title # <<>>
    /\ \A r \in DOMAIN file.rows : file.rows[r].title # <<>>

GetFields ==
    {"id", "agent_source", "project_path", "title", "summary", "tags",
     "key_decisions", "files_modified", "created_at", "metadata"}

\* C19: the server-shell get_session raises nothing; for an id that is not
\* stored it returns a string containing "not found", for a stored id a
\* structure with the ten fields of the record.
C19_GetShape ==
    LastRet.op = "server.get_session" =>
        /\ LastRet.ok
        /\ Len(LastRet.sessions) = 1
        /\ IF hist[LastRet.id].cur = None
           THEN /\ LastRet.sessions[1].type = "str"
                /\ Has(LastRet.sessions[1].value, " not found")
           ELSE /\ LastRet.sessions[1].type = "dict"
                /\ DOMAIN LastRet.sessions[1].value = GetFields
                /\ LastRet.sessions[1].value.id = LastRet.id

\* get_session returned the structure of a stored session whose title is
\* empty, while the other id is not stored.
C19_Witness ==
    /\ LastRet.op = "server.get_session"
    /\ LastRet.sessions[1].type = "dict"
    /\ LastRet.sessions[1].value.title = <<>>
    /\ \E o \in Ids : hist[o].cur = None

\* The summary of the list_sessions response for a stored summary.
Shown(summary) ==
    IF Len(summary) <= 200 THEN summary
    ELSE [i \in 1..201 |-> IF i <= 200 THEN summary[i] ELSE "..."]

\* C20: each summary of the server-shell list_sessions response is the
\* stored summary when that has at most 200 characters, else its first 200
\* characters followed by "..."; the stored summary stays whole and the
\* server-shell get_session returns it in full.
C20_ListTruncatesSummary ==
    /\ LastRet.op = "server.list_sessions" =>
          /\ LastRet.ok
          /\ \A i \in DOMAIN LastRet.sessions :
                LastRet.sessions[i].value.summary
                  = Shown(hist[LastRet.sessions[i].value.id].cur[1].summary)
    /\ ( LastRet.op = "server.get_session" /\ hist[LastRet.id].cur # None ) =>
          LastRet.sessions[1].value.summary = hist[LastRet.id].cur[1].summary
    /\ \A r \in DOMAIN file.rows :
          file.rows[r].summary = hist[file.rows[r].id].cur[1].summary

\* The response lists a summary of exactly 200 characters, shown whole, and
\* one of 201 characters, shown cut.
C20_Witness ==
    /\ LastRet.op = "server.list_sessions"
    /\ \E i, j \in DOMAIN LastRet.sessions :
          /\ LastRet.sessions[i].value.summary = Chars(200)
          /\ Len(hist[LastRet.sessions[j].value.id].cur[1].summary) = 201
          /\ LastRet.sessions[j].value.summary = Chars(200) \o <<"...">>

C22_LazyHandleReused ==
    [][\A c \in Stores :
          /\ conn[c].live <= 1 /\ conn'[c].live <= 1
          /\ ret[c].op = "none" => ( conn[c].live = 0 /\ ~conn[c].ref )
          /\ ( ret'[c].op \notin {"none", "close"} /\ ret'[c] # ret[c] ) =>
                /\ conn'[c] = [ref |-> TRUE, live |-> 1]
                /\ disk'.dir /\ disk'.schema
                /\ conn[c].ref => conn'[c] = conn[c]
          /\ ret'[c].op = "close" => ( conn'[c].live = 0 /\ ~conn'[c].ref )]_vars

\* One store has closed its handle after use while the other holds one,
\* with a session stored.
C22_Witness ==
    /\ ret["s2"].op = "close" /\ conn["s2"].live = 0
    /\ ret["s1"].op = "get_session" /\ conn["s1"].live = 1
    /\ ret["s1"].sessions # <<>>
    /\ disk.schema

\* C30: close() changes no stored session, and on a store without a
\* handle (never opened, or closed already) it changes nothing at all;
\* every get_session, also the first after a close, returns the session
\* last committed under the id, so the stored ids and records survive any
\* number of close-and-reopen cycles.
C30_CloseKeepsSessions ==
    [][\A c \in Stores :
          /\ ( ret'[c].op = "close" /\ ( ret[c].op # "close" \/ conn[c].ref ) ) =>
                /\ file' = file
                /\ ~conn[c].ref =>
                      ( conn' = conn /\ disk' = disk /\ txn' = txn /\ lock' = lock )
          /\ ( ret'[c].op = "get_session" /\ ~conn[c].ref ) =>
                /\ ret'[c].ok
                /\ ret'[c].sessions = hist[ret'[c].id].cur
                /\ \A id \in Ids : SelectById(file', id).sessions = hist[id].cur]_vars

\* Both stores have closed, the schema exists and a session is stored
\* under every id.
C30_Witness ==
    /\ ret["s1"].op = "close" /\ ~conn["s1"].ref
    /\ ret["s2"].op = "close" /\ ~conn["s2"].ref
    /\ disk.schema
    /\ \A id \in Ids : hist[id].cur # None

Listed(db, limit) == Limit(OrderByCreatedDesc(db.rows, DOMAIN db.rows, FALSE), limit)

\* C23: a get_session, list_sessions or query_sessions call that selects a
\* row holding a malformed field raises and returns nothing; a get_session
\* or list_sessions that selects only well-formed rows returns them all;
\* no read changes the store.
C23_MalformedRowFailsCall ==
    [][( ret'["s1"].op \in {"get_session", "list_sessions", "query_sessions"}
         /\ ret'["s1"] # ret["s1"] ) =>
          /\ file' = file
          /\ ret'["s1"].op = "get_session" =>
                LET hit == {r \in DOMAIN file.rows : file.rows[r].id = ret'["s1"].id}
                IN  IF \E r \in hit : ~RowValid(file.rows[r])
                    THEN ~ret'["s1"].ok /\ ret'["s1"].sessions = <<>>
                    ELSE ret'["s1"].ok /\ Len(ret'["s1"].sessions) = Cardinality(hit)
          /\ ret'["s1"].op = "list_sessions" =>
                LET top == Listed(file, ret'["s1"].limit)
                IN  IF \E i \in DOMAIN top : ~RowValid(file.rows[top[i]])
                    THEN ~ret'["s1"].ok /\ ret'["s1"].sessions = <<>>
                    ELSE ret'["s1"].ok /\ Len(ret'["s1"].sessions) = Len(top)
          /\ ( /\ ret'["s1"].op = "query_sessions"
               /\ \E r \in DOMAIN file.rows :
                     ret'["s1"].query \in file.fts[r] /\ ~RowValid(file.rows[r]) ) =>
                ( ~ret'["s1"].ok /\ ret'["s1"].sessions = <<>> )]_vars

\* list_sessions with limit 1 returned the most recent session while an
\* older row holds malformed text.
C23_Witness ==
    /\ LastRet.op = "list_sessions" /\ LastRet.limit = 1
    /\ LastRet.ok /\ Len(LastRet.sessions) = 1
    /\ \E r \in DOMAIN file.rows : ~RowValid(file.rows[r])

(***************************************************************************)
(* Ids of server-shell writes (specification SpecShellWrite)               *)
(***************************************************************************)
\* C24: every server-shell write_session call that stores its session adds
\* exactly one row, whose id was in no row before, and leaves every row
\* stored before as it was.
C24_ServerWriteAddsOneSession ==
    [][( /\ ret'["s1"].op = "server.write_session"
         /\ ret'["s1"].ok
         /\ \E args \in TaggedArgs, id \in Ids :
               server_write_session("s1", args, id, Utc(1)) ) =>
          /\ \A r \in DOMAIN file.rows : file.rows[r].id # ret'["s1"].id
          /\ Cardinality(DOMAIN file'.rows) = Cardinality(DOMAIN file.rows) + 1
          /\ \A r \in DOMAIN file.rows :
                r \in DOMAIN file'.rows /\ file'.rows[r] = file.rows[r]]_vars

(***************************************************************************)
(* Marker blocks (specifications SpecInject and SpecRemove)                *)
(***************************************************************************)
Count(text, lexeme) == Cardinality({i \in DOMAIN text : text[i] = lexeme})

NonBlank(text) == SelectSeq(text, LAMBDA x : x \notin Whitespace)

\* The file f holds exactly one start and one end marker, `block` stands
\* from the one to the other, nothing but white space follows it, and the
\* text before it is orig without its trailing white space.
OneBlock(f, orig, block, marker_start, marker_end) ==
    /\ f # None
    /\ LET text == f[1]
           start == find(text, marker_start)
           end == find(text, marker_end)
       IN  /\ Count(text, marker_start) = 1
           /\ Count(text, marker_end) = 1
           /\ SubSeq(text, start + 1, end + 1) = block
           /\ rstrip(SubSeq(text, 1, start)) = rstrip(IF orig = None THEN <<>> ELSE orig[1])
           /\ lstrip(SubSeq(text, end + 2, Len(text))) = <<>>

\* C25: once _inject_marker_block (or _inject_toml_config) was called one
\* or more times on a file that was missing or held no marker, the file
\* holds exactly one start and one end marker, between them the content
\* (the executable) of the last call only, and before the block the text
\* the file held before the calls, up to its trailing white space.
C25_OneBlockWithLastContent ==
    /\ note.calls.rules >= 1 =>
          OneBlock(fs.rules, note.rules,
                   <<RULES_MARKER_START, "\n">> \o note.content[1] \o <<"\n", RULES_MARKER_END>>,
                   RULES_MARKER_START, RULES_MARKER_END)
    /\ note.calls.toml >= 1 =>
          /\ OneBlock(fs.toml, note.toml,
                      <<TOML_MARKER_START, "\n", "[mcp_servers.agentshare]", "\n",
                        "command = ", note.executable[1], "\n",
                        "args = [\"mcp\", \"serve\"]", "\n", TOML_MARKER_END>>,
                      TOML_MARKER_START, TOML_MARKER_END)
          /\ \A e \in Executables \ {note.executable[1]} : Count(fs.toml[1], e) = 0

\* Both files held text, and each was injected into twice or more, the
\* rules file last with the one-word content.
C25_Witness ==
    /\ note.calls.rules = 2 /\ note.calls.toml = 2
    /\ note.rules = Some(<<"a", " ", "\n", "\n">>)
    /\ note.toml = Some(<<"\n", "a", "\n", "b", "\n">>)
    /\ note.content = Some(<<"c">>)
    /\ note.executable = Some("/new/path/agentshare")

\* What a removal leaves of file f as g: f itself when it is missing or
\* lacks one of the markers; when f holds one block, no file if nothing
\* but white space stands outside the block, else a file with the words
\* outside the block, in their order, and no marker.
Removed(f, g, marker_start, marker_end) ==
    IF f = None \/ Count(f[1], marker_start) = 0 \/ Count(f[1], marker_end) = 0
    THEN g = f
    ELSE LET text == f[1]
             start == find(text, marker_start)
             end == find(text, marker_end)
             outside == NonBlank(SubSeq(text, 1, start)) \o NonBlank(SubSeq(text, end + 2, Len(text)))
         IN  ( Count(text, marker_start) = 1 /\ Count(text, marker_end) = 1 /\ start < end ) =>
                IF outside = <<>>
                THEN g = None
                ELSE /\ g # None
                     /\ NonBlank(g[1]) = outside
                     /\ Count(g[1], marker_start) = 0 /\ Count(g[1], marker_end) = 0

\* C26: _remove_marker_block and _remove_toml_config return True; they
\* leave a file that is missing or lacks a marker as it is, delete a file
\* whose block is its only content, and otherwise leave the file with all
\* the non-blank text that stood outside the block and without the block.
C26_RemoveTakesBlockOnly ==
    [][/\ remove_marker_block =>
            ( note'.ok /\ Removed(fs.rules, fs'.rules, RULES_MARKER_START, RULES_MARKER_END) )
       /\ remove_toml_config =>
            ( note'.ok /\ Removed(fs.toml, fs'.toml, TOML_MARKER_START, TOML_MARKER_END) )]_vars

\* The block was removed from between two texts of the rules file, and
\* the TOML file, created by an injection, is gone again.
C26_Witness ==
    /\ note.op \in {"_remove_marker_block", "_remove_toml_config"}
    /\ note.rules = Some(<<"a", "\n", "\n">> \o make_marker_block(<<"c">>) \o <<"\n", "\n", "b", "\n">>)
    /\ fs.rules = Some(<<"a", "\n", "\n", "b", "\n">>)
    /\ note.toml = None /\ note.calls.toml >= 1 /\ fs.toml = None

(***************************************************************************)
(* The JSON config (specification SpecJson)                                *)
(***************************************************************************)
HoldsObject(f) == f # None /\ f[1].valid

\* The server entries of a config: those of its "mcpServers" member.
Servers(f) ==
    IF "mcpServers" \in DOMAIN f[1].value.m THEN f[1].value.m["mcpServers"].m ELSE <<>>

\* Files f and g hold objects with the same members other than
\* "mcpServers" and the same server entries other than agentshare's.
SameButAgentshare(f, g) ==
    /\ HoldsObject(g)
    /\ DOMAIN g[1].value.m \ {"mcpServers"} = DOMAIN f[1].value.m \ {"mcpServers"}
    /\ \A k \in DOMAIN f[1].value.m \ {"mcpServers"} : g[1].value.m[k] = f[1].value.m[k]
    /\ DOMAIN Servers(g) \ {"agentshare"} = DOMAIN Servers(f) \ {"agentshare"}
    /\ \A k \in DOMAIN Servers(f) \ {"agentshare"} : Servers(g)[k] = Servers(f)[k]

\* C27: on a config file that holds a JSON object, _inject_json_config
\* returns True and leaves the file with every other member and server
\* entry as it was and with one agentshare entry, of the executable passed;
\* _remove_json_mcp_config returns True and leaves the file with every
\* other member and server entry as it was and with no agentshare entry.
C27_OnlyAgentshareEntryChanges ==
    [][/\ \A e \in Executables :
            ( InjectJson(e) /\ HoldsObject(fs.json) ) =>
               /\ note'.err = "" /\ note'.ok
               /\ SameButAgentshare(fs.json, fs'.json)
               /\ "agentshare" \in DOMAIN Servers(fs'.json)
               /\ Servers(fs'.json)["agentshare"] = Entry(e)
       /\ ( RemoveJson /\ HoldsObject(fs.json) ) =>
               /\ note'.err = "" /\ note'.ok
               /\ SameButAgentshare(fs.json, fs'.json)
               /\ "agentshare" \notin DOMAIN Servers(fs'.json)]_vars

(***************************************************************************)
(* The skills registry (specification SpecSkills)                          *)
(***************************************************************************)
\* C28: when remove_skill(name) returns true, get_skill(name) returns None
\* afterwards and list_skills holds no skill of that name; it returns
\* false exactly when the registry holds no skill of that name, and then
\* removes nothing.
C28_RemovedSkillIsGone ==
    [][\A name \in SkillNames :
          RemoveSkill(name) =>
             /\ note'.ok =>
                   /\ get_skill(fs'.skills, name) = None
                   /\ \A i \in DOMAIN list_skills(fs'.skills) :
                         list_skills(fs'.skills)[i].name # name
             /\ ~note'.ok <=> (\A s \in fs.skills : s.name # name)
             /\ ~note'.ok => fs'.skills = fs.skills]_vars

====
